---- MODULE Spec2Model ----
(***************************************************************************)
(* The DMX gateway of hass-dmx (custom_components/dmx/light.py): a channel *)
(* buffer, the immediate write set_channels, the fading coroutine          *)
(* set_channels_async with its cooperative cancellation through the        *)
(* module-level dict _last_command_ids, and the Art-Net, KiNet and sACN    *)
(* send() encoders.                                                        *)
(*                                                                         *)
(* Numbers that Python holds as floats are held here as exact rationals    *)
(* <<p, q>> (q > 0).  For at most 6 frames and byte-sized operands the     *)
(* float expression round(original + increment * i) of the source takes    *)
(* the same value as the exact rational rounded half-to-even (differences  *)
(* start at 7 frames for half-integer targets and at 14 frames for         *)
(* integer targets), so the frame bounds below stay within that range.     *)
(***************************************************************************)
EXTENDS Integers, Sequences, FiniteSets, TLC

VARIABLES
    protocol,            \* which gateway class was constructed
    universe,            \* DMXGateway._universe
    number_of_channels,  \* DMXGateway._number_of_channels
    channels,            \* DMXGateway._channels, the channel buffer (1-indexed here)
    base_packet,         \* the header template _base_packet
    sequence,            \* sACNGateway.sequence
    last_command_ids,    \* the module-level dict _last_command_ids (0: key absent)
    tasks,               \* the set_channels_async coroutines, one record per task
    datagram,            \* the last packet socket.sendto transmitted (<<>>: none yet)
    lastOp               \* what the last call or coroutine step did

vars == <<protocol, universe, number_of_channels, channels, base_packet, sequence,
          last_command_ids, tasks, datagram, lastOp>>

----------------------------------------------------------------------------
(* Bounds of the model *)

\* number of set_channels_async coroutines a behaviour creates
MaxTasks == 2
\* random.randint(1, 1000000) is drawn from 1..MaxCmdId
MaxCmdId == 2
\* requested number_of_channels of the gateway the transitions run on
ReqChannels == 2
\* the largest number_of_channels a constructor is called with
MaxRequested == 514
\* the largest number_of_frames for which a frame value is computed on exact
\* rationals; above it the double-precision arithmetic is followed bit by bit
ExactFrames == 6
\* the number of datagrams the sACN gateway of the template specification builds
MaxSends == 5

(* Program constants *)

\* default fps of set_channels_async
Fps == 40
\* the value at which sACNGateway.send resets its sequence counter
SeqWrap == 200
\* the item count of pack("512B", ...) in KiNetGateway.send
KiNetPayload == 512
\* the largest value one byte of a bytearray or of pack("B") holds
MaxByte == 255
\* the size of a DMX universe: the largest dmx_channels of the configuration
\* and the cap of the legacy gateway
UniverseSize == 512

----------------------------------------------------------------------------
(* Python arithmetic on exact rationals <<p, q>>, q > 0 *)

Rat(p, q) == <<p, q>>
Whole(k) == <<k, 1>>
IsWhole(r) == r[1] % r[2] = 0

Min(a, b) == IF a <= b THEN a ELSE b
Max(a, b) == IF a >= b THEN a ELSE b

\* int(x): truncation toward zero
PyInt(r) == IF r[1] >= 0 THEN r[1] \div r[2] ELSE -((-r[1]) \div r[2])

\* round(num / den): to the nearest integer, ties to the even neighbour
PyRound(num, den) ==
    LET fl  == num \div den
        rem == num - fl * den
    IN  IF 2 * rem > den THEN fl + 1
        ELSE IF 2 * rem < den THEN fl
        ELSE IF fl % 2 = 0 THEN fl ELSE fl + 1

\* list index channel - 1 into a list of n entries, as a 1-based position;
\* 0 stands for IndexError.  A negative index counts from the end.
PyIndex(channel, n) ==
    IF channel >= 1 /\ channel <= n THEN channel
    ELSE IF channel <= 0 /\ channel - 1 >= -n THEN n + channel
    ELSE 0

----------------------------------------------------------------------------
(* Values: a scalar or a list / tuple of numbers *)

Scalar(r) == [isList |-> FALSE, arr |-> <<r>>]
List(s)   == [isList |-> TRUE, arr |-> s]

\* value_arr = [value], or value itself when it is a list or a tuple
ValueArr(value) == value.arr

\* a variant that repeats the first element, not the last, beyond the end
ValueAtRepeatsFirst(value_arr, x) ==
    IF x <= Len(value_arr) THEN value_arr[x] ELSE value_arr[1]

\* value_arr[min(x, len(value_arr) - 1)] for the 0-based position x - 1
ValueAt(value_arr, x) == value_arr[Min(x, Len(value_arr))]

----------------------------------------------------------------------------
(* Construction *)

\* a variant that makes an odd count even by dropping a channel
EvenChannelsRoundsDown(n) == IF n % 2 # 0 THEN n - 1 ELSE n

\* "Number of channels must be even"
EvenChannels(n) == IF n % 2 # 0 THEN n + 1 ELSE n

\* the legacy gateway (artnet.py): the count is capped at 512, then one is
\* added when the requested count, not the capped one, is odd
LegacyChannels(n) ==
    (IF n <= UniverseSize THEN n ELSE UniverseSize) + (IF n % 2 # 0 THEN 1 ELSE 0)

LegacyInitialChannels(default_level, n) == [c \in 1..LegacyChannels(n) |-> default_level]

InitialChannels(default_level, n) == [c \in 1..EvenChannels(n) |-> default_level]

\* a variant that packs little-endian
PackShortLE(n) == <<n % 256, n \div 256>>

\* pack(">h", n) and pack(">H", n) for 0 <= n < 32768
PackShortBE(n) == <<n \div 256, n % 256>>

ArtNetBasePacket(u, n) ==
    <<65, 114, 116, 45, 78, 101, 116>> \o <<0>> \o <<0, 80>> \o <<0, 14>>
        \o <<0, 0>> \o <<u, 0>> \o PackShortBE(n)

KiNetBasePacket(u) ==
    <<4, 1, 220, 74, 1, 0, 1, 1>>
        \o <<0, 0, 0, 0, 0, 0, 0, 0, 255, 255, 255, 255>> \o <<u>>

SourceName16 == <<45, 72, 65, 45, 68, 77, 88, 45, 79, 118, 101, 114, 45, 73, 80, 45>>

\* a variant that packs the universe little-endian
sACNBasePacketLittleEndian(u) ==
    <<0, 1, 0, 0>> \o <<65, 83, 67, 45, 69, 49, 46, 49, 55>>
        \o <<0, 0, 0, 114, 87>> \o <<0, 0, 0, 4>>
        \o <<84, 104, 105, 115, 73, 115, 77, 121, 67, 73, 68, 120, 120, 120, 120, 120>>
        \o <<114, 87>> \o <<0, 0, 0, 2>>
        \o SourceName16 \o SourceName16 \o SourceName16 \o SourceName16
        \o <<255>> \o <<0, 50>> \o <<0>> \o <<0>> \o <<u % 256, u \div 256>>
        \o <<114, 13, 2, 161, 0, 0, 0, 1, 2, 1, 0>>

\* the template of sACNGateway.__init__: root layer, framing layer with the
\* sequence byte at offset 111 and the universe at offsets 113..114, data layer
sACNBasePacket(u) ==
    <<0, 1, 0, 0>> \o <<65, 83, 67, 45, 69, 49, 46, 49, 55>>
        \o <<0, 0, 0, 114, 87>> \o <<0, 0, 0, 4>>
        \o <<84, 104, 105, 115, 73, 115, 77, 121, 67, 73, 68, 120, 120, 120, 120, 120>>
        \o <<114, 87>> \o <<0, 0, 0, 2>>
        \o SourceName16 \o SourceName16 \o SourceName16 \o SourceName16
        \o <<255>> \o <<0, 50>> \o <<0>> \o <<0>> \o PackShortBE(u)
        \o <<114, 13, 2, 161, 0, 0, 0, 1, 2, 1, 0>>

BasePacket(p, u, n) ==
    IF p = "artnet" THEN ArtNetBasePacket(u, n)
    ELSE IF p = "kinet" THEN KiNetBasePacket(u)
    ELSE sACNBasePacket(u)

----------------------------------------------------------------------------
(* send(): the packet each encoder builds, then socket.sendto *)

AllBytes(s) == \A k \in 1..Len(s) : s[k] \in 0..MaxByte

\* What every send() builds up to sendto is a record: the packet, the sequence
\* counter and template, the header template as the call leaves it.

\* ArtNetGateway.send up to sendto: "packet = self._base_packet[:]" is a copy,
\* and bytearray.extend raises ValueError on a value that is no byte
ArtNetPacket(buf) ==
    IF AllBytes(buf)
    THEN [err |-> "none", packet |-> base_packet \o buf, sequence |-> sequence,
          template |-> base_packet]
    ELSE [err |-> "ValueError", packet |-> <<>>, sequence |-> sequence,
          template |-> base_packet]

\* KiNetGateway.send up to sendto: on a copy of the template;
\* pack("512B", *channels) raises struct.error unless it is given exactly 512
\* byte values
KiNetPacket(buf) ==
    IF Len(buf) = KiNetPayload /\ AllBytes(buf)
    THEN [err |-> "none", packet |-> base_packet \o buf, sequence |-> sequence,
          template |-> base_packet]
    ELSE [err |-> "struct.error", packet |-> <<>>, sequence |-> sequence,
          template |-> base_packet]

\* the counter after "self.sequence += 1; if self.sequence == 200: self.sequence = 1"
NextSequence(s) == IF s + 1 = SeqWrap THEN 1 ELSE s + 1

\* a variant that writes the sequence byte into the template itself
sACNPacketWritesTemplate(buf) ==
    IF sequence \notin 0..MaxByte
    THEN [err |-> "struct.error", packet |-> <<>>, sequence |-> sequence,
          template |-> base_packet]
    ELSE IF ~AllBytes(buf)
    THEN [err |-> "ValueError", packet |-> <<>>, sequence |-> NextSequence(sequence),
          template |-> [base_packet EXCEPT ![112] = sequence]]
    ELSE [err |-> "none",
          packet |-> [base_packet EXCEPT ![112] = sequence] \o buf,
          sequence |-> NextSequence(sequence),
          template |-> [base_packet EXCEPT ![112] = sequence]]

\* sACNGateway.send up to sendto: the slices _base_packet[0:111] and
\* _base_packet[112:] are copies; the sequence byte goes between them, at
\* offset 111 of the packet, and the counter moves on before the channels are
\* added
sACNPacket(buf) ==
    IF sequence \notin 0..MaxByte
    THEN [err |-> "struct.error", packet |-> <<>>, sequence |-> sequence,
          template |-> base_packet]
    ELSE IF ~AllBytes(buf)
    THEN [err |-> "ValueError", packet |-> <<>>, sequence |-> NextSequence(sequence),
          template |-> base_packet]
    ELSE [err |-> "none",
          packet |-> SubSeq(base_packet, 1, 111) \o <<sequence>>
                        \o SubSeq(base_packet, 113, Len(base_packet)) \o buf,
          sequence |-> NextSequence(sequence),
          template |-> base_packet]

BuildPacket(buf) ==
    IF protocol \in {"artnet", "legacy"} THEN ArtNetPacket(buf)
    ELSE IF protocol = "kinet" THEN KiNetPacket(buf)
    ELSE sACNPacket(buf)

\* One call of send() with the buffer buf.  ok: whether socket.sendto returns (TRUE) or raises
\* OSError (FALSE); no encoder catches either exception.
Send(buf, ok) ==
    LET b == BuildPacket(buf)
    IN  IF b.err # "none"
        THEN [err |-> b.err, datagram |-> datagram, sequence |-> b.sequence,
              base_packet |-> b.template, sent |-> 0]
        ELSE IF ok
        THEN [err |-> "none", datagram |-> b.packet, sequence |-> b.sequence,
              base_packet |-> b.template, sent |-> 1]
        ELSE [err |-> "OSError", datagram |-> datagram, sequence |-> b.sequence,
              base_packet |-> b.template, sent |-> 0]

\* send() not called
NoSend ==
    [err |-> "none", datagram |-> datagram, sequence |-> sequence,
     base_packet |-> base_packet, sent |-> 0]

----------------------------------------------------------------------------
(* The write loops *)

RECURSIVE SetLoop(_, _, _, _)

\* a variant that appends to the list when the index is one past its end
SetLoopAppends(buf, group, value_arr, x) ==
    IF x > Len(group) THEN [buf |-> buf, err |-> "none"]
    ELSE IF group[x] = Len(buf) + 1
         THEN SetLoop(Append(buf, PyInt(ValueAt(value_arr, x))), group, value_arr, x + 1)
         ELSE LET k == PyIndex(group[x], Len(buf))
              IN  IF k = 0 THEN [buf |-> buf, err |-> "IndexError"]
                  ELSE SetLoop([buf EXCEPT ![k] = PyInt(ValueAt(value_arr, x))],
                               group, value_arr, x + 1)

\* the for loop of set_channels from position x of the group on
SetLoop(buf, group, value_arr, x) ==
    IF x > Len(group) THEN [buf |-> buf, err |-> "none"]
    ELSE LET k == PyIndex(group[x], Len(buf))
         IN  IF k = 0 THEN [buf |-> buf, err |-> "IndexError"]
             ELSE SetLoop([buf EXCEPT ![k] = PyInt(ValueAt(value_arr, x))],
                          group, value_arr, x + 1)

\* max(int(transition * fps), 1)
NumberOfFrames(transition, fps) == Max(PyInt(Rat(transition[1] * fps, transition[2])), 1)

----------------------------------------------------------------------------
(* IEEE 754 double arithmetic on the magnitudes a frame computes.  A       *)
(* non-negative number below 2^24 is int + (l1 * 2^48 + l2 * 2^24 + l3) /  *)
(* 2^72: an integer part and 72 fraction bits in three limbs of 24 bits.   *)
(* A double holds 53 significant bits; results are rounded to nearest,     *)
(* ties to the even mantissa.                                              *)

\* 2^24, the size of a limb
Limb == 16777216
\* the significant bits of a double
DoubleBits == 53

\* the number of bits of k
RECURSIVE BitLen(_)
BitLen(k) == IF k = 0 THEN 0 ELSE 1 + BitLen(k \div 2)

\* how many fraction bits a double of this magnitude holds
FractionBits(x) ==
    IF x.int > 0 THEN DoubleBits - BitLen(x.int)
    ELSE IF x.l1 > 0 THEN (24 - BitLen(x.l1)) + DoubleBits
    ELSE 72

\* carries from limb to limb and into the integer part: c2 and c1 are the
\* second and first limb with the carry they received
CarryOut(int, c1, c2, h3) ==
    [int |-> int + (c1 \div Limb), l1 |-> c1 % Limb, l2 |-> c2 % Limb, l3 |-> h3 % Limb]

CarryMid(int, h1, c2, h3) == CarryOut(int, h1 + (c2 \div Limb), c2, h3)

Carry(int, h1, h2, h3) == CarryMid(int, h1, h2 + (h3 \div Limb), h3)

\* round to nearest, ties to even: tail is what lies below the last kept bit,
\* whose weight is unit; rest tells of non-zero bits further down, last is
\* the last kept bit
RoundsUp(tail, unit, rest, last) ==
    /\ tail \div (unit \div 2) = 1
    /\ (tail % (unit \div 2) # 0 \/ rest \/ last = 1)

\* the last kept bit lies in the second limb
RoundUpLimb2(x, unit, tail, rest) ==
    Carry(x.int, x.l1,
          (x.l2 - tail)
            + (IF RoundsUp(tail, unit, rest, ((x.l2 - tail) \div unit) % 2)
               THEN unit ELSE 0),
          0)

\* the last kept bit lies in the third limb, or, when unit is a whole limb,
\* is the last bit of the second
RoundUpLimb3(x, unit, tail, rest) ==
    Carry(x.int, x.l1, x.l2,
          (x.l3 - tail)
            + (IF RoundsUp(tail, unit, rest,
                           IF unit < Limb THEN ((x.l3 - tail) \div unit) % 2
                           ELSE x.l2 % 2)
               THEN unit ELSE 0))

\* x rounded to A fraction bits
RoundAt(x, sticky, A) ==
    IF A >= 72 THEN x
    ELSE IF A < 48
    THEN RoundUpLimb2(x, 2 ^ (48 - A), x.l2 % (2 ^ (48 - A)), x.l3 # 0 \/ sticky)
    ELSE RoundUpLimb3(x, 2 ^ (72 - A), x.l3 % (2 ^ (72 - A)), sticky)

\* x, followed by further non-zero bits iff sticky, rounded to a double
RoundToDouble(x, sticky) == RoundAt(x, sticky, FractionBits(x))

\* long division, limb by limb: q is the integer part, r the remainder so far
DivLimb3(q, l1, l2, r2, den) ==
    RoundToDouble([int |-> q, l1 |-> l1, l2 |-> l2, l3 |-> (r2 * Limb) \div den],
                  (r2 * Limb) % den # 0)

DivLimb2(q, l1, r1, den) == DivLimb3(q, l1, (r1 * Limb) \div den, (r1 * Limb) % den, den)

DivLimb1(q, r0, den) == DivLimb2(q, (r0 * Limb) \div den, (r0 * Limb) % den, den)

\* the double nearest to num / den, for 0 <= num and 0 < den < 128
DoubleDiv(num, den) == DivLimb1(num \div den, num % den, den)

\* multiplication, limb by limb from the last: x3, x2, x1 are the limbs times
\* i with the carry they received
MulInt(x, i, x1, x2, x3) ==
    RoundToDouble([int |-> x.int * i + (x1 \div Limb), l1 |-> x1 % Limb,
                   l2 |-> x2 % Limb, l3 |-> x3 % Limb], FALSE)

MulLimb1(x, i, x2, x3) == MulInt(x, i, x.l1 * i + (x2 \div Limb), x2, x3)

MulLimb2(x, i, x3) == MulLimb1(x, i, x.l2 * i + (x3 \div Limb), x3)

\* the double nearest to x * i, for an integer 0 <= i < 128
DoubleMul(x, i) == MulLimb2(x, i, x.l3 * i)

\* round(x) of a double: to the nearest integer, ties to the even one
DoubleRound(x) ==
    IF x.l1 > Limb \div 2 \/ (x.l1 = Limb \div 2 /\ (x.l2 > 0 \/ x.l3 > 0)) THEN x.int + 1
    ELSE IF x.l1 < Limb \div 2 THEN x.int
    ELSE IF x.int % 2 = 0 THEN x.int ELSE x.int + 1

\* int(round(o + p)) for an integer o and a double p
DoubleAddRound(o, p) == DoubleRound(RoundToDouble([p EXCEPT !.int = o + p.int], FALSE))

\* o - p for an integer o and a double p with a non-zero fraction, p < o:
\* b3 and b2 are the borrows of the third and of the second limb
Borrowed(o, p, b2, b3) ==
    [int |-> o - p.int - 1, l1 |-> (Limb - p.l1 - b2) % Limb,
     l2 |-> (Limb - p.l2 - b3) % Limb, l3 |-> (Limb - p.l3) % Limb]

\* int(round(o - p)) for an integer o and a double p
DoubleSubRound(o, p) ==
    IF p.l1 = 0 /\ p.l2 = 0 /\ p.l3 = 0
    THEN o - p.int
    ELSE IF p.int < o
    THEN DoubleRound(RoundToDouble(
             Borrowed(o, p, IF p.l2 > 0 \/ p.l3 > 0 THEN 1 ELSE 0,
                      IF p.l3 > 0 THEN 1 ELSE 0),
             FALSE))
    ELSE 0 - DoubleRound(RoundToDouble([p EXCEPT !.int = p.int - o], FALSE))

\* original + (num / den) * i, rounded, with the sign of num taken out
DoubleStep(original, num, den, i) ==
    IF num >= 0 THEN DoubleAddRound(original, DoubleMul(DoubleDiv(num, den), i))
    ELSE DoubleSubRound(original, DoubleMul(DoubleDiv(0 - num, den), i))

\* int(round(original + ((target - original) / number_of_frames) * i)) in
\* doubles, for a target with a denominator of 1 or 2
DoubleNextValue(original, target, i, n) ==
    DoubleStep(original, target[1] - original * target[2], target[2] * n, i)

\* a variant that interpolates from 0, not from the snapshot
ExactNextValueFromZero(original, target, i, n) ==
    PyRound(target[1] * i, target[2] * n)

\* the same expression on exact rationals
ExactNextValue(original, target, i, n) ==
    PyRound(original * target[2] * n + (target[1] - original * target[2]) * i,
            target[2] * n)

\* a variant that is one frame ahead and so runs past the target
NextValueOvershoots(original, target, i, n) ==
    IF n <= ExactFrames THEN ExactNextValue(original, target, i + 1, n)
    ELSE DoubleNextValue(original, target, i + 1, n)

\* next_value of a frame.  Up to ExactFrames frames the doubles give the
\* value of the exact rational (DoublesAgreeWithExact); it is used there to
\* keep the large specifications fast.
NextValue(original, target, i, n) ==
    IF n <= ExactFrames THEN ExactNextValue(original, target, i, n)
    ELSE DoubleNextValue(original, target, i, n)

\* the inner for loop of set_channels_async in frame i, from position x on
RECURSIVE FrameLoop(_, _, _, _, _, _, _, _)
FrameLoop(buf, changed, group, value_arr, orig, i, n, x) ==
    IF x > Len(group) THEN [buf |-> buf, changed |-> changed, err |-> "none"]
    ELSE LET k == PyIndex(group[x], Len(orig))
         IN  IF k = 0 THEN [buf |-> buf, changed |-> changed, err |-> "IndexError"]
             ELSE LET nv == NextValue(orig[k], ValueAt(value_arr, x), i, n)
                  IN  IF buf[k] # nv
                      THEN FrameLoop([buf EXCEPT ![k] = nv], TRUE,
                                     group, value_arr, orig, i, n, x + 1)
                      ELSE FrameLoop(buf, changed, group, value_arr, orig, i, n, x + 1)

\* a variant that calls send() in every frame, changed or not
FrameSendsUnchanged(group, value_arr, orig, i, n, send_immediately, ok) ==
    LET w == FrameLoop(channels, FALSE, group, value_arr, orig, i, n, 1)
        s == IF w.err = "none" /\ send_immediately
             THEN Send(w.buf, ok) ELSE NoSend
    IN  [buf |-> w.buf, changed |-> w.changed,
         err |-> IF w.err # "none" THEN w.err ELSE s.err,
         datagram |-> s.datagram, sequence |-> s.sequence,
         base_packet |-> s.base_packet, sent |-> s.sent]

\* one frame of set_channels_async: the writes, then send() if something changed
Frame(group, value_arr, orig, i, n, send_immediately, ok) ==
    LET w == FrameLoop(channels, FALSE, group, value_arr, orig, i, n, 1)
        s == IF w.err = "none" /\ w.changed /\ send_immediately
             THEN Send(w.buf, ok) ELSE NoSend
    IN  [buf |-> w.buf, changed |-> w.changed,
         err |-> IF w.err # "none" THEN w.err ELSE s.err,
         datagram |-> s.datagram, sequence |-> s.sequence,
         base_packet |-> s.base_packet, sent |-> s.sent]

----------------------------------------------------------------------------
(* Tasks *)

TaskIds == 1..MaxTasks

\* who issued a command: a task id, or 0 for a call of set_channels
SyncCaller == 0

Unused ==
    [pc |-> "unused", channels |-> <<>>, value_arr |-> <<>>, transition |-> Whole(0),
     number_of_frames |-> 0, i |-> 0, currently_exec_cmd_id |-> 0,
     original_values |-> <<>>, send_immediately |-> FALSE, err |-> "none",
     superseded |-> FALSE, late |-> FALSE, touched |-> {}]

Started(T) == T.pc # "unused"
Terminated(T) == T.pc \in {"done", "aborted", "raised"}

Overlap(g1, g2) == \E a \in 1..Len(g1), b \in 1..Len(g2) : g1[a] = g2[b]

\* History kept for the properties: a sleeping task is superseded when a
\* command with its key is issued; a started task is touched by every other
\* command that runs its write loop over one of the task's channels; a task
\* is late once it has written a buffer entry after it was superseded.
Mark(ts, who, group, issued) ==
    [u \in TaskIds |->
        IF u = who \/ ~Started(ts[u]) THEN ts[u]
        ELSE [ts[u] EXCEPT
                !.superseded = @ \/ (issued /\ ts[u].pc = "sleeping"
                                        /\ ts[u].channels[1] = group[1]),
                !.touched = IF Overlap(ts[u].channels, group) THEN @ \cup {who} ELSE @]]

NoOp == [name |-> "none", task |-> 0, group |-> <<>>, value_arr |-> <<>>,
         send_immediately |-> FALSE, err |-> "none", sent |-> 0]

----------------------------------------------------------------------------
(* Inputs of the transition specification *)

\* channel groups as DMXLight.__init__ builds them: consecutive channels
\* from the light's first channel
Groups == {<<1>>, <<1, 2>>, <<2>>}

\* target values of set_channels_async
AsyncValues == {Scalar(Whole(0)), Scalar(Whole(255)), List(<<Whole(10), Whole(20)>>)}

\* transition times in seconds: 0, 0.06 (2.4 frame times) and 0.075 (3 frame times)
Transitions == {Whole(0), Rat(3, 50), Rat(3, 40)}

DefaultLevels == {0}

CmdIds == 1..MaxCmdId

\* channel groups and values of the set_channels calls in the immediate-write
\* and encoder specifications: 127.5 is no integer, <<10, 20>> is shorter than
\* the longer groups and the list of five is longer than every group
SetGroups == {<<1>>, <<2, 3, 4>>, <<1, 2, 3, 4>>}
SetValues == {Scalar(Rat(255, 2)), List(<<Whole(10), Whole(20)>>),
              List(<<Whole(10), Whole(20), Whole(30), Whole(40), Whole(50)>>)}

\* what a misconfigured caller passes: groups that hold index 0 or run past
\* the end of a buffer of 4 channels, and values outside 0..255
MisuseSetGroups == {<<0, 1>>, <<3, 4, 5>>}
MisuseSetValues == {Scalar(Whole(-1)), Scalar(Whole(300)), List(<<Whole(10), Whole(20)>>)}
MisuseAsyncGroups == {<<0>>, <<4, 5>>, <<1>>}
MisuseAsyncValues == {Scalar(Whole(255)), Scalar(Whole(300))}
MisuseTransitions == {Whole(0), Rat(3, 40)}

Keys == {g[1] : g \in Groups \cup SetGroups \cup MisuseSetGroups \cup MisuseAsyncGroups}

----------------------------------------------------------------------------
(* Operations *)

\* a variant that calls send() whatever send_immediately says
set_channels_always_sends(group, value, send_immediately, id, ok) ==
    LET value_arr == ValueArr(value)
        w == SetLoop(channels, group, value_arr, 1)
        s == IF w.err = "none" THEN Send(w.buf, ok) ELSE NoSend
    IN  /\ last_command_ids' = [last_command_ids EXCEPT ![group[1]] = id]
        /\ channels' = w.buf
        /\ datagram' = s.datagram
        /\ sequence' = s.sequence
        /\ base_packet' = s.base_packet
        /\ tasks' = Mark(tasks, SyncCaller, group, TRUE)
        /\ lastOp' = [name |-> "set_channels", task |-> SyncCaller, group |-> group,
                      value_arr |-> value_arr, send_immediately |-> send_immediately,
                      err |-> IF w.err # "none" THEN w.err ELSE s.err, sent |-> s.sent]
        /\ UNCHANGED <<protocol, universe, number_of_channels>>

\* DMXGateway.set_channels(channels, value, send_immediately); id is the
\* number random.randint returns
set_channels(group, value, send_immediately, id, ok) ==
    LET value_arr == ValueArr(value)
        w == SetLoop(channels, group, value_arr, 1)
        s == IF w.err = "none" /\ send_immediately THEN Send(w.buf, ok) ELSE NoSend
    IN  /\ last_command_ids' = [last_command_ids EXCEPT ![group[1]] = id]
        /\ channels' = w.buf
        /\ datagram' = s.datagram
        /\ sequence' = s.sequence
        /\ base_packet' = s.base_packet
        /\ tasks' = Mark(tasks, SyncCaller, group, TRUE)
        /\ lastOp' = [name |-> "set_channels", task |-> SyncCaller, group |-> group,
                      value_arr |-> value_arr, send_immediately |-> send_immediately,
                      err |-> IF w.err # "none" THEN w.err ELSE s.err, sent |-> s.sent]
        /\ UNCHANGED <<protocol, universe, number_of_channels>>

\* The first step of the coroutine set_channels_async: everything up to the
\* first "yield from asyncio.sleep", that is the new command id, the snapshot
\* and frame 1.  An exception ends the task.
set_channels_async(t, group, value, transition, send_immediately, id, ok) ==
    /\ tasks[t].pc = "unused"
    /\ IF t = 1 THEN TRUE ELSE Started(tasks[t - 1])
    /\ LET value_arr == ValueArr(value)
           n == NumberOfFrames(transition, Fps)
           f == Frame(group, value_arr, channels, 1, n, send_immediately, ok)
           T == [pc |-> IF f.err = "none" THEN "sleeping" ELSE "raised",
                 channels |-> group, value_arr |-> value_arr, transition |-> transition,
                 number_of_frames |-> n, i |-> 1, currently_exec_cmd_id |-> id,
                 original_values |-> channels, send_immediately |-> send_immediately,
                 err |-> f.err, superseded |-> FALSE, late |-> FALSE, touched |-> {}]
       IN  /\ last_command_ids' = [last_command_ids EXCEPT ![group[1]] = id]
           /\ channels' = f.buf
           /\ datagram' = f.datagram
           /\ sequence' = f.sequence
           /\ base_packet' = f.base_packet
           /\ tasks' = [Mark(tasks, t, group, TRUE) EXCEPT ![t] = T]
           /\ lastOp' = [NoOp EXCEPT !.name = "frame", !.task = t,
                                      !.err = f.err, !.sent = f.sent]
    /\ UNCHANGED <<protocol, universe, number_of_channels>>

\* The coroutine resumes from asyncio.sleep: it breaks when the command id
\* of its key is no longer its own, ends when the range of frames is used
\* up, and otherwise runs the next frame up to the next sleep.
Resume(t, ok) ==
    /\ tasks[t].pc = "sleeping"
    /\ LET T == tasks[t]
       IN  IF T.currently_exec_cmd_id # last_command_ids[T.channels[1]]
           THEN /\ tasks' = [tasks EXCEPT ![t].pc = "aborted"]
                /\ lastOp' = [NoOp EXCEPT !.name = "abort", !.task = t]
                /\ UNCHANGED <<channels, datagram, sequence, base_packet>>
           ELSE IF T.i = T.number_of_frames
           THEN /\ tasks' = [tasks EXCEPT ![t].pc = "done"]
                /\ lastOp' = [NoOp EXCEPT !.name = "end", !.task = t]
                /\ UNCHANGED <<channels, datagram, sequence, base_packet>>
           ELSE LET f == Frame(T.channels, T.value_arr, T.original_values, T.i + 1,
                               T.number_of_frames, T.send_immediately, ok)
                IN  /\ channels' = f.buf
                    /\ datagram' = f.datagram
                    /\ sequence' = f.sequence
                    /\ base_packet' = f.base_packet
                    /\ tasks' = [Mark(tasks, t, T.channels, FALSE) EXCEPT
                                    ![t].pc = IF f.err = "none" THEN "sleeping" ELSE "raised",
                                    ![t].i = T.i + 1,
                                    ![t].err = f.err,
                                    ![t].late = T.late \/ (T.superseded /\ f.changed)]
                    /\ lastOp' = [NoOp EXCEPT !.name = "frame", !.task = t,
                                               !.err = f.err, !.sent = f.sent]
    /\ UNCHANGED <<protocol, universe, number_of_channels, last_command_ids>>

\* a direct call of send()
send(ok) ==
    LET s == Send(channels, ok)
    IN  /\ datagram' = s.datagram
        /\ sequence' = s.sequence
        /\ base_packet' = s.base_packet
        /\ lastOp' = [NoOp EXCEPT !.name = "send", !.err = s.err, !.sent = s.sent]
        /\ UNCHANGED <<protocol, universe, number_of_channels, channels,
                       last_command_ids, tasks>>

\* set_channels, or the first step of set_channels_async, called on another
\* gateway of the same process: it stores its command id in the module-level
\* _last_command_ids, which every gateway shares, and writes and sends the
\* buffer of that other gateway, which is no part of this state
other_gateway_command(group, id) ==
    /\ last_command_ids' = [last_command_ids EXCEPT ![group[1]] = id]
    /\ lastOp' = [NoOp EXCEPT !.name = "other_gateway", !.group = group]
    /\ UNCHANGED <<protocol, universe, number_of_channels, channels, base_packet,
                   sequence, tasks, datagram>>

\* a bool where a number is expected: True is 1 and False is 0
PyBool(b) == IF b THEN Whole(1) ELSE Whole(0)

\* DMXLight.async_added_to_hass with a last state that holds dmx_values: it
\* starts set_channels_async(self._channels, old_dmx_values,
\* self._send_when_added), whose third positional parameter is transition;
\* fps and send_immediately keep their defaults, 40 and True
async_added_to_hass(t, group, old_dmx_values, send_when_added, id, ok) ==
    set_channels_async(t, group, old_dmx_values, PyBool(send_when_added), TRUE, id, ok)

\* DMXGateway.get_channel_level(channel): the entry at int(channel) - 1, read
\* as a list index
get_channel_level(channel) ==
    LET k == PyIndex(channel, Len(channels))
    IN  /\ lastOp' = [name |-> "get_channel_level", task |-> SyncCaller,
                      group |-> <<channel>>, value_arr |-> <<>>,
                      send_immediately |-> FALSE,
                      err |-> IF k = 0 THEN "IndexError" ELSE "none", sent |-> 0,
                      returned |-> IF k = 0 THEN "raised" ELSE channels[k]]
        /\ UNCHANGED <<protocol, universe, number_of_channels, channels, base_packet,
                       sequence, last_command_ids, tasks, datagram>>

----------------------------------------------------------------------------
(* The transition specification: an Art-Net gateway, immediate writes and  *)
(* up to MaxTasks fading coroutines, interleaved at their sleeps           *)

\* the gateway p with universe u, default level d and n requested channels
Construct(p, u, d, n) ==
    /\ protocol = p
    /\ universe = u
    /\ number_of_channels = EvenChannels(n)
    /\ channels = InitialChannels(d, n)
    /\ base_packet = BasePacket(p, u, EvenChannels(n))
    /\ sequence = 0
    /\ datagram = <<>>

Init ==
    /\ \E d \in DefaultLevels : Construct("artnet", 0, d, ReqChannels)
    /\ last_command_ids = [k \in Keys |-> 0]
    /\ tasks = [t \in TaskIds |-> Unused]
    /\ lastOp = NoOp

StartTransition ==
    \E t \in TaskIds, g \in Groups, v \in AsyncValues, tr \in Transitions,
       si \in BOOLEAN, id \in CmdIds, ok \in BOOLEAN :
        set_channels_async(t, g, v, tr, si, id, ok)

ResumeTransition == \E t \in TaskIds, ok \in BOOLEAN : Resume(t, ok)

Next == StartTransition \/ ResumeTransition

Spec == Init /\ [][Next]_vars

----------------------------------------------------------------------------
(* The encoder specifications: one gateway of each protocol, immediate     *)
(* writes and direct calls of send()                                       *)

Idle ==
    /\ last_command_ids = [k \in Keys |-> 0]
    /\ tasks = [t \in TaskIds |-> Unused]
    /\ lastOp = NoOp

\* universe is a cv.byte of the configuration
ArtNetUniverses == 0..MaxByte
ArtNetCounts == {3, 4, 512}

sACNUniverses == {0, 1, 255}

\* dmx_channels of the configuration: vol.Range(min=1, max=512)
KiNetCounts == 1..KiNetPayload

SetCall ==
    \E g \in SetGroups, v \in SetValues, si \in BOOLEAN, id \in CmdIds, ok \in BOOLEAN :
        set_channels(g, v, si, id, ok)

\* one write of the whole first group of four channels, without a send
FillCall ==
    \E v \in SetValues : set_channels(<<1, 2, 3, 4>>, v, FALSE, 1, TRUE)

SendCall == \E ok \in BOOLEAN : send(ok)

NextEncoder == FillCall \/ SendCall

InitArtNet ==
    /\ \E u \in ArtNetUniverses, n \in ArtNetCounts : Construct("artnet", u, 0, n)
    /\ Idle

SpecArtNet == InitArtNet /\ [][NextEncoder]_vars

InitsACN ==
    /\ \E u \in sACNUniverses : Construct("sacn", u, 0, 4)
    /\ Idle

SpecsACN == InitsACN /\ [][SendCall]_vars

InitKiNet ==
    /\ \E n \in KiNetCounts : Construct("kinet", 1, 0, n)
    /\ Idle

SpecKiNet == InitKiNet /\ [][SendCall]_vars

----------------------------------------------------------------------------
(* The immediate-write specification: set_channels on an Art-Net gateway   *)

InitSet ==
    /\ Construct("artnet", 0, 0, 3)
    /\ Idle

NextSet == SetCall \/ SendCall

SpecSet == InitSet /\ [][NextSet]_vars

----------------------------------------------------------------------------
(* Properties of the transitions, stated on Spec *)

\* the exact rational target r is what channel k holds
Holds(k, r) == channels[k] * r[2] = r[1]

AtTarget(T) ==
    \A x \in 1..Len(T.channels) : Holds(T.channels[x], ValueAt(T.value_arr, x))

\* C1: once a second command with the same first channel index has been
\* issued while a transition sleeps in its frame loop, that transition
\* leaves the loop at its next resume and writes no buffer entry any more.
C1_SupersededWritesNothing == \A t \in TaskIds : ~tasks[t].late

\* C2: when transition a was superseded by transition b on the same group,
\* no other command touched the group, and both tasks have terminated (here:
\* neither of them by an exception), every channel of the group holds b's
\* target.
C2_FinalStateIsSuperseders ==
    \A a, b \in TaskIds :
        ( /\ a # b
          /\ tasks[a].pc \in {"done", "aborted"} /\ tasks[b].pc \in {"done", "aborted"}
          /\ tasks[a].channels = tasks[b].channels
          /\ tasks[a].superseded /\ tasks[a].touched = {b}
          /\ ~tasks[b].superseded /\ tasks[b].touched \subseteq {a} )
        => AtTarget(tasks[b])

\* C3: a terminated transition that was not superseded and whose channels no
\* other command wrote has run exactly max(floor(D * F), 1) frames and has
\* left every channel of its group at its target.
C3_FrameCountAndExactTarget ==
    \A t \in TaskIds :
        LET T == tasks[t]
        IN  (Terminated(T) /\ ~T.superseded /\ T.touched = {})
            => /\ T.i = Max((T.transition[1] * Fps) \div T.transition[2], 1)
               /\ (T.transition = Whole(0) => T.i = 1)
               /\ AtTarget(T)

\* C4: of two transitions on disjoint groups neither is cancelled, each
\* sleeping one holds, after its frame i, the values it would hold had it run
\* alone, and once both have terminated both groups are at their targets.
C4_DisjointGroupsIndependent ==
    \A a, b \in TaskIds :
        LET A == tasks[a]
            B == tasks[b]
        IN  (a # b /\ Started(A) /\ Started(B) /\ ~Overlap(A.channels, B.channels))
            => /\ A.pc # "aborted"
               /\ (A.pc = "sleeping" =>
                    \A x \in 1..Len(A.channels) :
                        channels[A.channels[x]]
                            = NextValue(A.original_values[A.channels[x]],
                                        ValueAt(A.value_arr, x), A.i, A.number_of_frames))
               /\ ((Terminated(A) /\ Terminated(B)) => AtTarget(A))

\* What remains of C3 in the behaviours in which the task is not ended by an
\* exception: a transition that ran to the end of its loop, unsuperseded and
\* with its channels to itself, ran that many frames and is at its target.
CompletedFadeIsExact ==
    \A t \in TaskIds :
        LET T == tasks[t]
        IN  (T.pc = "done" /\ ~T.superseded /\ T.touched = {})
            => /\ T.i = Max((T.transition[1] * Fps) \div T.transition[2], 1)
               /\ AtTarget(T)

\* C9: a send that fails in a frame of a transition is not fatal: the
\* transition is not ended by it before its last frame.
C9_SendFailureNotFatal ==
    \A t \in TaskIds :
        ~(tasks[t].pc = "raised" /\ tasks[t].err = "OSError"
            /\ tasks[t].i < tasks[t].number_of_frames)

----------------------------------------------------------------------------
(* Properties of the encoders *)

\* the sequence byte of an sACN datagram: offset 111
SequenceByte(d) == d[112]

\* C5: every sACN datagram sent carries a sequence byte in 1..200.
C5_SequenceByteIn1To200 ==
    datagram # <<>> => SequenceByte(datagram) \in 1..SeqWrap

\* C6: of two consecutive send() calls that both transmit, the later
\* datagram's sequence byte is the earlier one's plus 1, and 1 after 200.
C6_SequenceStepsByOne ==
    [][(lastOp.name = "send" /\ lastOp.err = "none"
            /\ lastOp'.name = "send" /\ lastOp'.err = "none")
        => SequenceByte(datagram') =
              IF SequenceByte(datagram) = SeqWrap THEN 1
              ELSE SequenceByte(datagram) + 1]_vars

\* C7: a KiNet send() never fails for the size of the buffer, and the
\* datagram it sends has a channel payload of exactly 512 bytes.
C7_KiNetPayloadAlways512 ==
    lastOp.name = "send"
        => /\ lastOp.err # "struct.error"
           /\ (lastOp.err = "none" => Len(datagram) = Len(base_packet) + KiNetPayload)

\* the 18 header bytes of an Art-Net datagram for universe u and n channels
ArtNetHeader(u, n) ==
    <<65, 114, 116, 45, 78, 101, 116, 0, 0, 80, 0, 14, 0, 0, u, 0,
      (n - (n % 256)) \div 256, n % 256>>

\* C8: every datagram an Art-Net send() transmits is the 18 header bytes
\* followed by the number_of_channels bytes of the buffer in channel order;
\* for universe 0 and the buffer [10, 20, 30, 40] it ends in 0, 4, 10, 20, 30, 40.
C8_ArtNetDatagram ==
    (lastOp.name = "send" /\ lastOp.err = "none")
        => /\ Len(datagram) = 18 + number_of_channels
           /\ SubSeq(datagram, 1, 18) = ArtNetHeader(universe, number_of_channels)
           /\ SubSeq(datagram, 19, Len(datagram)) = channels
           /\ ((universe = 0 /\ channels = <<10, 20, 30, 40>>)
                => datagram = <<65, 114, 116, 45, 78, 101, 116, 0, 0, 80, 0, 14,
                                0, 0, 0, 0, 0, 4, 10, 20, 30, 40>>)

C8_Witness ==
    /\ lastOp.name = "send" /\ lastOp.err = "none"
    /\ universe = 0 /\ channels = <<10, 20, 30, 40>>
    /\ Len(datagram) = 22

----------------------------------------------------------------------------
(* Properties of set_channels, stated on SpecSet *)

\* the element of the list at the 1-based position x, its last one beyond its end
Positional(value_arr, x) ==
    IF x <= Len(value_arr) THEN value_arr[x] ELSE value_arr[Len(value_arr)]

\* C10 as stated: after set_channels the channel at each position of the
\* group holds the scalar, or the list's element at that position, and the
\* list's last element beyond its end.
C10_HoldsTheValue ==
    lastOp.name = "set_channels"
        => \A x \in 1..Len(lastOp.group) :
              Holds(lastOp.group[x], Positional(lastOp.value_arr, x))

\* C10 amended: the channel holds int() of that value, the value truncated
\* toward zero, which is the value itself when it is an integer.
C10_HoldsTheTruncatedValue ==
    lastOp.name = "set_channels"
        => \A x \in 1..Len(lastOp.group) :
              LET r == Positional(lastOp.value_arr, x)
              IN  /\ channels[lastOp.group[x]] = PyInt(r)
                  /\ (IsWhole(r) => Holds(lastOp.group[x], r))

C10_Witness ==
    /\ lastOp.name = "set_channels"
    /\ lastOp.group = <<2, 3, 4>>
    /\ lastOp.value_arr = <<Whole(10), Whole(20)>>
    /\ channels[2] = 10 /\ channels[3] = 20 /\ channels[4] = 20

\* C11: a set_channels call writes the buffer whatever send_immediately says;
\* with send_immediately true it calls send() once, after the last write: one
\* datagram, holding the buffer as the call leaves it, is handed to the socket
\* and is the datagram transmitted unless the socket raises; with
\* send_immediately false it hands nothing to the socket.
C11_SendIffSendImmediately ==
    [][lastOp'.name = "set_channels"
        => /\ \A x \in 1..Len(lastOp'.group) :
                 channels'[lastOp'.group[x]] = PyInt(Positional(lastOp'.value_arr, x))
           /\ (lastOp'.send_immediately
                 => \/ /\ lastOp'.err = "none" /\ lastOp'.sent = 1
                       /\ datagram' = base_packet \o channels'
                    \/ /\ lastOp'.err = "OSError" /\ lastOp'.sent = 0
                       /\ datagram' = datagram)
           /\ (~lastOp'.send_immediately
                 => /\ lastOp'.err = "none" /\ lastOp'.sent = 0
                    /\ datagram' = datagram)]_vars

\* both cases of C11 have happened: a datagram from an earlier call is still
\* the last one sent after a later call wrote other values without sending
C11_Witness ==
    /\ lastOp.name = "set_channels" /\ ~lastOp.send_immediately
    /\ lastOp.group = <<2, 3, 4>> /\ channels = <<127, 10, 20, 20>>
    /\ datagram = base_packet \o <<127, 0, 0, 0>>

----------------------------------------------------------------------------
(* The construction specification: a gateway of light.py or the legacy     *)
(* gateway of artnet.py, for every requested channel count and default     *)
(* level, then direct calls of send()                                      *)

\* the legacy gateway with default level d and n requested channels
ConstructLegacy(d, n) ==
    /\ protocol = "legacy"
    /\ universe = 0
    /\ number_of_channels = LegacyChannels(n)
    /\ channels = LegacyInitialChannels(d, n)
    /\ base_packet = ArtNetBasePacket(0, LegacyChannels(n))
    /\ sequence = 0
    /\ datagram = <<>>

RequestedCounts == 1..MaxRequested
AllDefaultLevels == 0..MaxByte

\* the arguments <<default_level, number_of_channels>> of the constructor
\* calls: every count with the levels 0, 1, 128 and 255, and every level with
\* the smallest counts and the counts around the size of a universe
ConstructorArgs ==
    ({0, 1, 128, 255} \X RequestedCounts)
        \cup (AllDefaultLevels \X {1, 2, 3, 511, 512, 513, 514})

\* the constructor call a fresh gateway came from
ConstructorCall(d, n) ==
    [name |-> "__init__", task |-> 0, group |-> <<>>, value_arr |-> <<>>,
     send_immediately |-> FALSE, err |-> "none", sent |-> 0,
     default_level |-> d, requested |-> n]

InitConstruct ==
    /\ \E a \in ConstructorArgs :
          /\ Construct("artnet", 0, a[1], a[2]) \/ ConstructLegacy(a[1], a[2])
          /\ lastOp = ConstructorCall(a[1], a[2])
    /\ last_command_ids = [k \in Keys |-> 0]
    /\ tasks = [t \in TaskIds |-> Unused]

SpecConstruct == InitConstruct /\ [][SendCall]_vars

\* C12: a gateway freshly constructed with n in 1..512 requested channels and
\* a default level d in 0..255 has a buffer of exactly n entries when n is
\* even and n + 1 when n is odd, every one of them d.
C12_FreshBuffer ==
    (lastOp.name = "__init__" /\ lastOp.requested \in 1..UniverseSize
        /\ lastOp.default_level \in 0..MaxByte)
    => /\ Len(channels) = IF lastOp.requested % 2 = 0 THEN lastOp.requested
                                                      ELSE lastOp.requested + 1
       /\ DOMAIN channels = 1..Len(channels)
       /\ number_of_channels = Len(channels)
       /\ \A k \in 1..Len(channels) : channels[k] = lastOp.default_level

C12_Witness ==
    /\ lastOp.name = "__init__" /\ lastOp.requested = 511 /\ lastOp.default_level = 255
    /\ protocol = "artnet"
    /\ Len(channels) = 512 /\ channels[512] = 255

\* C13: whatever number of channels is requested, the channel count of a
\* freshly constructed gateway, and the length of its buffer, is even and at
\* most 512.
C13_EvenAndAtMost512 ==
    lastOp.name = "__init__"
    => /\ number_of_channels % 2 = 0 /\ number_of_channels <= UniverseSize
       /\ Len(channels) % 2 = 0 /\ Len(channels) <= UniverseSize

----------------------------------------------------------------------------
(* The misuse specification: an Art-Net gateway of 4 channels whose callers *)
(* pass indices outside 1..4 and values outside 0..255                      *)

InitMisuse ==
    /\ Construct("artnet", 0, 0, 3)
    /\ Idle

\* the immediate writes of this specification do not send
MisuseSetCall ==
    \E g \in MisuseSetGroups, v \in MisuseSetValues :
        set_channels(g, v, FALSE, 1, TRUE)

\* one transition
MisuseStart ==
    \E g \in MisuseAsyncGroups, v \in MisuseAsyncValues,
       tr \in MisuseTransitions, si \in BOOLEAN :
        set_channels_async(1, g, v, tr, si, 1, TRUE)

MisuseResume == \E t \in TaskIds : Resume(t, TRUE)

NextMisuse == MisuseSetCall \/ MisuseStart \/ MisuseResume

SpecMisuse == InitMisuse /\ [][NextMisuse]_vars

\* the group of the call or of the frame that lastOp records
OpGroup(op, ts) == IF op.name = "frame" THEN ts[op.task].channels ELSE op.group

OutOfRange(group, n) == \E x \in 1..Len(group) : group[x] \notin 1..n

\* C14: a set_channels call, or a frame of set_channels_async, whose group
\* holds an index outside [1, N] raises an error and leaves every buffer
\* entry as it was.
C14_BadIndexReportedNothingWritten ==
    [][(lastOp'.name \in {"set_channels", "frame"}
            /\ OutOfRange(OpGroup(lastOp', tasks'), number_of_channels))
        => (lastOp'.err = "IndexError" /\ channels' = channels)]_vars

\* C16: no value outside [0, 255] is ever stored in the buffer or placed in
\* a datagram that is sent.
C16_OutOfRangeNeverStored ==
    /\ \A k \in DOMAIN channels : channels[k] >= 0 /\ channels[k] <= MaxByte
    /\ \A k \in DOMAIN datagram : datagram[k] >= 0 /\ datagram[k] <= MaxByte

----------------------------------------------------------------------------
(* The mixed specification: immediate writes interleaved with up to        *)
(* MaxTasks transitions on overlapping groups, all values within 0..255    *)

\* two groups with the same first channel and different lengths; the ends of
\* the range and 127.5, a value of the range that is no integer
MixedGroups == {<<1>>, <<1, 2>>}
MixedValues == {Scalar(Whole(0)), Scalar(Rat(255, 2)), Scalar(Whole(255))}
MixedTransitions == {Whole(0), Rat(3, 40)}

\* the immediate write: both channels to 127.5
MixedSetCall == set_channels(<<1, 2>>, Scalar(Rat(255, 2)), FALSE, 1, TRUE)

MixedStart ==
    \E t \in TaskIds, g \in MixedGroups, v \in MixedValues, tr \in MixedTransitions,
       id \in CmdIds :
        set_channels_async(t, g, v, tr, FALSE, id, TRUE)

MixedResume == \E t \in TaskIds : Resume(t, TRUE)

NextMixed == MixedSetCall \/ MixedStart \/ MixedResume

SpecMixed == Init /\ [][NextMixed]_vars

\* C15: every buffer entry is an integer in 0..255, in every state that
\* immediate writes and concurrently running transitions (superseded ones
\* and ones on overlapping groups among them) with values in 0..255 reach.
C15_EveryEntryIsAByte ==
    \A k \in 1..Len(channels) :
        channels[k] \in Int /\ 0 <= channels[k] /\ channels[k] <= MaxByte

\* a transition that was superseded and still wrote, on a group that
\* overlaps the other transition's group and that an immediate write touched
C15_Witness ==
    \E a, b \in TaskIds :
        /\ a # b /\ tasks[a].late /\ Started(tasks[b])
        /\ tasks[a].channels # tasks[b].channels
        /\ Overlap(tasks[a].channels, tasks[b].channels)
        /\ SyncCaller \in tasks[a].touched
        /\ channels = <<128, 127>>

----------------------------------------------------------------------------
(* Cancellation, stated on Spec *)

\* C17: cancellation goes by the first index of the group alone.  A
\* transition that slept when a command on another group with the same first
\* index was issued is cancelled: it writes no channel after that command.
\* Transitions whose groups have different first indices never cancel each
\* other, overlapping or not.
C17_KeyedByFirstIndexOnly ==
    \A a, b \in TaskIds :
        (a # b /\ Started(tasks[a]) /\ Started(tasks[b]))
        => /\ ( ( /\ tasks[a].channels[1] = tasks[b].channels[1]
                  /\ tasks[a].channels # tasks[b].channels
                  /\ tasks[a].superseded )
                => ~tasks[a].late )
           /\ ( tasks[a].channels[1] # tasks[b].channels[1]
                => tasks[a].pc # "aborted" )

----------------------------------------------------------------------------
(* The legacy specification: the gateway of artnet.py with set_channel     *)

\* DMXGateway.set_channel(channel, value, send_immediately) of artnet.py
set_channel(channel, value, send_immediately, ok) ==
    IF 1 <= channel /\ channel <= number_of_channels /\ 0 <= value /\ value <= MaxByte
    THEN LET buf == [channels EXCEPT ![channel] = value]
             s == IF send_immediately THEN Send(buf, ok) ELSE NoSend
         IN  /\ channels' = buf
             /\ datagram' = s.datagram
             /\ sequence' = s.sequence
             /\ base_packet' = s.base_packet
             /\ lastOp' = [name |-> "set_channel", task |-> 0, group |-> <<channel>>,
                           value_arr |-> <<value>>, send_immediately |-> send_immediately,
                           err |-> s.err, sent |-> s.sent,
                           returned |-> IF s.err = "none" THEN "True" ELSE "raised"]
             /\ UNCHANGED <<protocol, universe, number_of_channels,
                            last_command_ids, tasks>>
    ELSE /\ lastOp' = [name |-> "set_channel", task |-> 0, group |-> <<channel>>,
                       value_arr |-> <<value>>, send_immediately |-> send_immediately,
                       err |-> "none", sent |-> 0, returned |-> "False"]
         /\ UNCHANGED <<protocol, universe, number_of_channels, channels, base_packet,
                        sequence, last_command_ids, tasks, datagram>>

\* channel indices around the ends of a buffer of 4 channels, and values
\* around the ends of the byte range
LegacyChannelArgs == {0, 1, 3, 4, 5}
LegacyValueArgs == {0 - 1, 0, 7, 255, 256}

InitLegacy ==
    /\ ConstructLegacy(0, 3)
    /\ Idle

LegacySetCall ==
    \E c \in LegacyChannelArgs, v \in LegacyValueArgs, si \in BOOLEAN, ok \in BOOLEAN :
        set_channel(c, v, si, ok)

NextLegacy == LegacySetCall \/ SendCall

SpecLegacy == InitLegacy /\ [][NextLegacy]_vars

\* what C18 says of a set_channel step whose send, if any, is in outcome
ObeysC18(op, before, after, sentBefore, sentAfter, outcome) ==
    IF op.group[1] \notin 1..Len(before) \/ op.value_arr[1] \notin 0..MaxByte
    THEN /\ op.returned = "False" /\ after = before
         /\ op.sent = 0 /\ sentAfter = sentBefore
    ELSE /\ after = [before EXCEPT ![op.group[1]] = op.value_arr[1]]
         /\ IF op.send_immediately
            THEN op.err \in outcome
                 /\ (op.err = "none" => /\ op.returned = "True" /\ op.sent = 1
                                        /\ sentAfter = base_packet \o after)
            ELSE op.returned = "True" /\ op.sent = 0 /\ sentAfter = sentBefore

\* C18: set_channel with a channel outside [1, N] or a value outside
\* [0, 255] returns False, leaves the buffer as it was and sends nothing;
\* otherwise it writes exactly that channel, returns True and sends one
\* datagram iff send_immediately is true.
C18_LegacySetChannel ==
    [][lastOp'.name = "set_channel"
        => ObeysC18(lastOp', channels, channels', datagram, datagram', {"none"})]_vars

\* What remains of C18 when the socket may raise: everything but the return
\* value of the call whose send failed.
LegacySetChannelButForSocketErrors ==
    [][lastOp'.name = "set_channel"
        => ObeysC18(lastOp', channels, channels', datagram, datagram',
                    {"none", "OSError"})]_vars

----------------------------------------------------------------------------
(* The sends of a transition, stated on Spec *)

\* C19: a frame of a transition with send_immediately true calls send() once,
\* after its last write, when it changed a channel: one datagram, holding the
\* buffer as the frame leaves it, is handed to the socket and is the datagram
\* transmitted unless the socket raises.  A frame that changed no channel,
\* and every frame of a transition with send_immediately false, hands
\* nothing to the socket.
C19_SendIffFrameChanged ==
    [][lastOp'.name = "frame"
        => IF tasks'[lastOp'.task].send_immediately /\ channels' # channels
           THEN \/ /\ lastOp'.err = "none" /\ lastOp'.sent = 1
                   /\ datagram' = base_packet \o channels'
                \/ /\ lastOp'.err = "OSError" /\ lastOp'.sent = 0
                   /\ datagram' = datagram
           ELSE /\ lastOp'.err = "none" /\ lastOp'.sent = 0
                /\ datagram' = datagram]_vars

\* a fade of three frames has sent its frames, and the first frame of a
\* second transition, whose target the channel already holds, sent nothing
C19_Witness ==
    \E a, b \in TaskIds :
        /\ a # b
        /\ tasks[a].send_immediately /\ tasks[a].i = 3
        /\ tasks[b].send_immediately /\ tasks[b].i = 1
        /\ lastOp.name = "frame" /\ lastOp.task = b
        /\ lastOp.err = "none" /\ lastOp.sent = 0
        /\ channels = <<255, 0>>
        /\ datagram = base_packet \o channels

----------------------------------------------------------------------------
(* Termination: the event loop resumes every sleeping coroutine when its   *)
(* sleep is over                                                           *)

ResumeOf(t) == \E ok \in BOOLEAN : Resume(t, ok)

\* fades of three frames to 255 that send every frame
FairStart ==
    \E t \in TaskIds, g \in Groups, id \in CmdIds, ok \in BOOLEAN :
        set_channels_async(t, g, Scalar(Whole(255)), Rat(3, 40), TRUE, id, ok)

NextFair == FairStart \/ ResumeTransition

SpecFair == Init /\ [][NextFair]_vars /\ \A t \in TaskIds : WF_vars(ResumeOf(t))

\* C20: every started transition eventually terminates, as completed after
\* its last frame or as superseded.
C20_EveryTaskCompletesOrIsSuperseded ==
    \A t \in TaskIds :
        Started(tasks[t]) ~> (tasks[t].pc \in {"done", "aborted"})

\* What holds of C20: every started transition eventually terminates, in
\* one of the three ways, and a terminated one runs no further frame.
EveryTaskTerminates ==
    \A t \in TaskIds : Started(tasks[t]) ~> Terminated(tasks[t])

TerminatedRunsNoFrame ==
    [][\A t \in TaskIds :
          Terminated(tasks[t]) => (tasks'[t].pc = tasks[t].pc /\ tasks'[t].i = tasks[t].i)]_vars

----------------------------------------------------------------------------
(* The fade specification: one uninterrupted transition on channel 1, from *)
(* every original value to every target, in 1, 6, 14 and 40 frames         *)

FadeOriginals == {0, 1, 254, 255}
FadeTargets == {Scalar(Whole(k)) : k \in 0..MaxByte} \cup {Scalar(Rat(255, 2))}
\* 0 s, 0.15 s, 0.35 s and 1 s
FadeTransitions == {Whole(0), Rat(3, 20), Rat(7, 20), Whole(1)}

InitFade ==
    /\ \E d \in FadeOriginals : Construct("artnet", 0, d, ReqChannels)
    /\ Idle

FadeStart ==
    \E v \in FadeTargets, tr \in FadeTransitions :
        set_channels_async(1, <<1>>, v, tr, FALSE, 1, TRUE)

FadeResume == Resume(1, TRUE)

NextFade == FadeStart \/ FadeResume

SpecFade == InitFade /\ [][NextFade]_vars

\* twice the distance, in units of 1 / (q * n), between the value channel 1
\* holds after frame i and the exact original + (target - original) * i / n
TwiceOff(T) ==
    LET o == T.original_values[1]
        t == ValueAt(T.value_arr, 1)
        e == o * t[2] * T.number_of_frames + (t[1] - o * t[2]) * T.i
        v == channels[1] * t[2] * T.number_of_frames
    IN  IF v >= e THEN 2 * (v - e) ELSE 2 * (e - v)

\* C21: the value a frame writes is the integer nearest to the exact
\* original + (target - original) * i / frames: at most 1/2 away from it,
\* and the even neighbour whenever it is exactly 1/2 away from two integers.
C21_NearestWithTiesToEven ==
    Started(tasks[1])
    => LET T == tasks[1]
           half == ValueAt(T.value_arr, 1)[2] * T.number_of_frames
       IN  /\ TwiceOff(T) <= half
           /\ (TwiceOff(T) = half => channels[1] % 2 = 0)

\* What holds of C21: every frame writes an integer at most 1/2 away from
\* the exact value.
FrameValueIsNearest ==
    Started(tasks[1])
    => TwiceOff(tasks[1]) <= ValueAt(tasks[1].value_arr, 1)[2] * tasks[1].number_of_frames

\* Up to ExactFrames frames the doubles give the frame value of the exact
\* rationals.
DoublesAgreeWithExact ==
    (Started(tasks[1]) /\ tasks[1].number_of_frames <= ExactFrames)
    => LET T == tasks[1]
       IN  DoubleNextValue(T.original_values[1], ValueAt(T.value_arr, 1), T.i,
                           T.number_of_frames)
             = ExactNextValue(T.original_values[1], ValueAt(T.value_arr, 1), T.i,
                              T.number_of_frames)

\* the distance of the value v from the rational t, in units of 1 / t[2]
Away(v, t) == IF v * t[2] >= t[1] THEN v * t[2] - t[1] ELSE t[1] - v * t[2]

\* C26 as stated: in an uninterrupted transition no frame takes the channel
\* further from its target than the frame before left it, and every frame's
\* value lies in the closed interval between the snapshotted original and
\* the target.
C26_MonotoneNoOvershoot ==
    [][lastOp'.name = "frame"
        => LET T == tasks'[1]
               o == T.original_values[1]
               t == ValueAt(T.value_arr, 1)
               v == channels'[1]
           IN  /\ Away(v, t) <= Away(channels[1], t)
               /\ Away(v, t) <= Away(o, t)
               /\ Away(v, Whole(o)) * t[2] <= Away(o, t)]_vars

\* C26 amended: no frame takes the channel further from its target than the
\* frame before left it, and every frame's value lies in the closed interval
\* between the snapshotted original and the target, widened at the target's
\* end to the two integers that enclose a target that is not an integer.
C26_MonotoneWithinEnclosingIntegers ==
    [][lastOp'.name = "frame"
        => LET T == tasks'[1]
               o == T.original_values[1]
               t == ValueAt(T.value_arr, 1)
               lo == Min(o, PyInt(t))
               hi == Max(o, IF IsWhole(t) THEN PyInt(t) ELSE PyInt(t) + 1)
               v == channels'[1]
           IN  /\ Away(v, t) <= Away(channels[1], t)
               /\ lo <= v /\ v <= hi]_vars

\* the last frame of a fade of 14 frames from 1 to 127.5 has written 128
C26_Witness ==
    /\ lastOp.name = "frame"
    /\ tasks[1].number_of_frames = 14 /\ tasks[1].i = 14
    /\ tasks[1].original_values[1] = 1
    /\ tasks[1].value_arr = <<Rat(255, 2)>>
    /\ channels[1] = 128

----------------------------------------------------------------------------
(* The template specification: a gateway of each of the three encoders,    *)
(* written to and sent from                                                *)

TemplateProtocols == {"artnet", "kinet", "sacn"}
TemplateUniverses == {1, 255}
TemplateCounts == {4, 512}

InitTemplate ==
    /\ \E p \in TemplateProtocols, u \in TemplateUniverses, n \in TemplateCounts :
            Construct(p, u, 0, n)
    /\ Idle

\* a write of the first channel, with or without a send
TemplateSetCall ==
    \E v \in {0, 255}, si \in BOOLEAN, ok \in BOOLEAN :
        /\ sequence < MaxSends
        /\ set_channels(<<1>>, Scalar(Whole(v)), si, 1, ok)

TemplateSendCall == sequence < MaxSends /\ SendCall

NextTemplate == TemplateSetCall \/ TemplateSendCall

SpecTemplate == InitTemplate /\ [][NextTemplate]_vars

\* C22: on an Art-Net, KiNet or sACN gateway the header template is, after
\* any sequence of writes and send() calls, the one its constructor built:
\* every datagram is built on a copy, and the sACN sequence value goes into
\* the copy only.
C22_TemplateUnchanged ==
    base_packet = BasePacket(protocol, universe, number_of_channels)

\* an sACN gateway has sent its third datagram, which carries sequence 2 at
\* offset 111 where the template still holds 0
C22_Witness ==
    /\ protocol = "sacn"
    /\ lastOp.name = "send" /\ lastOp.sent = 1
    /\ sequence = 3
    /\ datagram[112] = 2
    /\ base_packet[112] = 0

\* the length of the sACN header, and the offsets (from 0) of its sequence
\* byte and of its universe number
sACNHeaderLen == 126
sACNSequenceOffset == 111
sACNUniverseOffset == 113

\* C23: every datagram an sACN gateway sends is 126 header bytes followed by
\* the N bytes of the buffer in channel order; the header is the template at
\* every offset but 111, which holds the sequence byte of this send, and
\* offsets 113..114 hold the universe number, high byte first.
C23_sACNDatagram ==
    [][(protocol = "sacn" /\ lastOp'.sent = 1)
        => /\ Len(datagram') = sACNHeaderLen + number_of_channels
           /\ Len(channels') = number_of_channels
           /\ \A k \in 1..number_of_channels :
                  datagram'[sACNHeaderLen + k] = channels'[k]
           /\ \A k \in 1..sACNHeaderLen :
                  k # sACNSequenceOffset + 1 => datagram'[k] = base_packet[k]
           /\ datagram'[sACNSequenceOffset + 1] = sequence
           /\ datagram'[sACNUniverseOffset + 1] = universe \div 256
           /\ datagram'[sACNUniverseOffset + 2] = universe % 256]_vars

\* an sACN gateway of universe 255 has written 255 to channel 1 and sent it in
\* its second datagram
C23_Witness ==
    /\ protocol = "sacn" /\ universe = 255
    /\ lastOp.name = "set_channels" /\ lastOp.sent = 1
    /\ sequence = 2
    /\ Len(datagram) = 130
    /\ datagram[112] = 1
    /\ datagram[127] = 255

----------------------------------------------------------------------------
(* The buffer-length specification: an Art-Net gateway of 4 channels under *)
(* immediate writes, transitions that supersede each other and sends, with *)
(* groups inside the buffer and groups that run past its end               *)

LengthGroups == {<<1, 2>>, <<4, 5>>}
LengthValues == {Scalar(Whole(0)), Scalar(Whole(255))}
LengthTransitions == {Whole(0), Rat(3, 40)}

InitLength ==
    /\ Construct("artnet", 0, 0, 3)
    /\ Idle

LengthSetCall ==
    \E g \in LengthGroups, v \in LengthValues, si \in BOOLEAN, id \in CmdIds :
        set_channels(g, v, si, id, TRUE)

\* one transition
LengthStart ==
    \E g \in LengthGroups, tr \in LengthTransitions, id \in CmdIds :
        set_channels_async(1, g, Scalar(Whole(255)), tr, TRUE, id, TRUE)

LengthResume == Resume(1, TRUE)

LengthGetCall == \E c \in {1, 5} : get_channel_level(c)

NextLength ==
    LengthSetCall \/ LengthStart \/ LengthResume \/ SendCall \/ LengthGetCall

SpecLength == InitLength /\ [][NextLength]_vars

\* C24: in every reachable state the buffer has the length it was given at
\* construction: no immediate write, frame, supersession or send adds or
\* removes an entry.
C24_BufferLengthConstant ==
    /\ Len(channels) = Len(InitialChannels(0, 3))
    /\ DOMAIN channels = 1..number_of_channels

\* a transition has been superseded and has ended, and an immediate write to
\* the group 4, 5 has then written channel 4 and raised on index 5
C24_Witness ==
    /\ tasks[1].pc = "aborted"
    /\ lastOp.name = "set_channels" /\ lastOp.group = <<4, 5>>
    /\ lastOp.err = "IndexError"
    /\ channels[4] = 255
    /\ datagram # <<>>

\* C25: an immediate write and a frame of a transition change no buffer entry
\* whose index is not in their group, and get_channel_level and send change
\* no buffer entry at all.
C25_OtherEntriesUnchanged ==
    [][/\ lastOp'.name \in {"set_channels", "frame"}
            => \A k \in DOMAIN channels :
                  (\A x \in DOMAIN OpGroup(lastOp', tasks') :
                        OpGroup(lastOp', tasks')[x] # k)
                    => channels'[k] = channels[k]
       /\ lastOp'.name \in {"send", "get_channel_level"} => channels' = channels]_vars

\* what holds of it: the same while no group holds an index below 1
OtherEntriesUnchangedForIndicesFromOne ==
    [][(\A x \in DOMAIN OpGroup(lastOp', tasks') : OpGroup(lastOp', tasks')[x] >= 1)
        => (/\ lastOp'.name \in {"set_channels", "frame"}
                => \A k \in DOMAIN channels :
                      (\A x \in DOMAIN OpGroup(lastOp', tasks') :
                            OpGroup(lastOp', tasks')[x] # k)
                        => channels'[k] = channels[k]
            /\ lastOp'.name \in {"send", "get_channel_level"}
                => channels' = channels)]_vars

\* C27: once an immediate set_channels call has been made on a group with the
\* first index of a running transition, no later step of that transition
\* changes the buffer, so the values set immediately stand when it has ended.
C27_ImmediateWriteSupersedes ==
    [][(lastOp'.name \in {"frame", "abort", "end"} /\ tasks[1].superseded)
        => channels' = channels]_vars

\* what holds of it: the same when the call drew another command id than the
\* transition
ImmediateWriteWithAnotherIdSupersedes ==
    [][( /\ lastOp'.name \in {"frame", "abort", "end"}
         /\ tasks[1].superseded
         /\ tasks[1].currently_exec_cmd_id # last_command_ids[tasks[1].channels[1]] )
        => (channels' = channels /\ lastOp'.name = "abort")]_vars

----------------------------------------------------------------------------
(* The two-gateway specification: one transition on this gateway while     *)
(* commands are issued on another gateway of the same process              *)

TwoGroups == {<<1>>, <<1, 2>>, <<2>>}
TwoValues == {Scalar(Whole(128)), Scalar(Whole(255))}
TwoTransitions == {Whole(0), Rat(3, 40), Rat(1, 10)}

TwoStart ==
    \E g \in TwoGroups, v \in TwoValues, tr \in TwoTransitions,
       si \in BOOLEAN, id \in CmdIds :
        set_channels_async(1, g, v, tr, si, id, TRUE)

TwoResume == Resume(1, TRUE)

OtherGatewayCall == \E g \in TwoGroups, id \in CmdIds : other_gateway_command(g, id)

NextTwo == TwoStart \/ TwoResume \/ OtherGatewayCall

SpecTwo == Init /\ [][NextTwo]_vars

\* C28: a command issued on another gateway never cancels or shortens a
\* transition of this gateway, whatever the first index of its group: a
\* transition that has ended, and that no command of its own gateway
\* superseded, has run all its frames and left its channels at its target.
C28_OtherGatewayNeverCancels ==
    (Terminated(tasks[1]) /\ ~tasks[1].superseded)
        => /\ tasks[1].i = tasks[1].number_of_frames
           /\ AtTarget(tasks[1])

----------------------------------------------------------------------------
(* The restore specification: a light is added and restores its last state *)

RestoreLevels == {0, 255}
RestoreGroups == {<<1>>, <<1, 2>>}
RestoreValues == {List(<<Whole(0)>>), List(<<Whole(255)>>), List(<<Whole(128), Whole(64)>>)}

InitRestore ==
    /\ \E d \in RestoreLevels : Construct("artnet", 0, d, ReqChannels)
    /\ Idle

RestoreCall ==
    \E g \in RestoreGroups, v \in RestoreValues, flag \in BOOLEAN,
       id \in CmdIds, ok \in BOOLEAN :
        async_added_to_hass(1, g, v, flag, id, ok)

RestoreResume == \E ok \in BOOLEAN : Resume(1, ok)

NextRestore == RestoreCall \/ RestoreResume

SpecRestore == InitRestore /\ [][NextRestore]_vars

\* the send-when-added flag of the light whose restore is task T: the value
\* that arrived as T's transition
SendWhenAdded(T) == T.transition = PyBool(TRUE)

\* C29: the restore of a light's last state sends a datagram only if the
\* light's send-when-added flag is true; with the flag false, as
\* async_setup_platform sets it, it writes the restored values and sends
\* nothing.
C29_RestoreSendsOnlyIfFlag ==
    [][lastOp'.sent = 1 => SendWhenAdded(tasks'[1])]_vars

====
